---- MODULE Spec2Model ----
(***************************************************************************)
(* Model of the /compare endpoint of backend/main.py (compare_docs) with   *)
(* its two detectors (pattern_detector.py, fraud_rules.py) and the         *)
(* persisted run history (memory_store.json).                              *)
(*                                                                         *)
(* Python values are tagged records: None, S("text"), I(number).  Strings  *)
(* are opaque in TLC, so every string function of the code (strip, the     *)
(* digit filters, the two-digit prefix, the keyword searches) is a table   *)
(* over the strings that occur in the modelled documents.                  *)
(***************************************************************************)
EXTENDS Integers, Sequences, FiniteSets, TLC

VARIABLES
    store,      \* the file memory_store.json: [kind, recs]
    clock,      \* source of datetime.utcnow(): number of runs that took a timestamp
    pc,         \* pc[p]: position of request p inside compare_docs
    docs,       \* docs[p]: extracted_docs of request p
    history,    \* history[p]: the local list `history` of request p
    out,        \* out[p]: the locals / JSON response of request p
    runs        \* history variable: the records of all runs so far, oldest
                \* first; no action reads it

vars == <<store, clock, pc, docs, history, out, runs>>

----------------------------------------------------------------------------
(* Bounds of the model *)

MaxDocs == 3        \* longest document list drawn from DocPool
MaxRuns == 2        \* comparison requests per behaviour

Procs == {1, 2}     \* the concurrent requests (worker processes)

----------------------------------------------------------------------------
(* Python values *)

None == [t |-> "None"]
S(x) == [t |-> "str", s |-> x]
I(x) == [t |-> "int", n |-> x]

\* bool(v): None, "" and 0 are falsy
Truthy(v) ==
    CASE v.t = "None" -> FALSE
      [] v.t = "str" -> v.s # ""
      [] v.t = "int" -> v.n # 0

\* `v in (None, "", [])` of the master comparison: 0 is not in the tuple
IsBlank(v) == v = None \/ v = S("")

\* str(v)
Str(v) ==
    CASE v.t = "None" -> "None"
      [] v.t = "str" -> v.s
      [] v.t = "int" -> ToString(v.n)

\* s.strip() on the strings of the model
Strip(s) ==
    CASE s = " " -> ""
      [] s = "XYZ LLC " -> "XYZ LLC"
      [] OTHER -> s

\* re.sub(r"[^\d.]", "", s) followed by float(), and re.sub(r"[^\d]", "", s)
\* followed by int(): the strings of the model that hold numbers are whole
\* numbers, on which both agree.  -1 stands for the ValueError of float("")/int("").
DigitsValue(s) ==
    CASE s = "0" -> 0
      [] s = "5" -> 5
      [] s = "7" -> 7
      [] s = "40" -> 40
      [] s = "60" -> 60
      [] s = "98" -> 98
      [] s = "100" -> 100
      [] s = "102" -> 102
      [] s = "150" -> 150
      [] s = "5000" -> 5000
      [] OTHER -> -1

safe_int(v) ==
    LET n == DigitsValue(Str(v)) IN IF n < 0 THEN 0 ELSE n

RECURSIVE SumSeq(_)
SumSeq(q) == IF q = <<>> THEN 0 ELSE Head(q) + SumSeq(Tail(q))

Range(q) == {q[i] : i \in 1..Len(q)}

----------------------------------------------------------------------------
(* Extraction results: what extract_core returns for one uploaded file *)

Item(hs, qty, amt) == [HS_Code |-> hs, Quantity |-> qty, Amount |-> amt]

F1 ==
    [filename |-> "a.pdf", invoice_no |-> S("INV-1"), date |-> S("01-Jan-2024"),
     amount |-> S("100"), currency |-> S("USD"), exporter |-> S("ABC Ltd."),
     consignee |-> S("XYZ LLC"), port_loading |-> S("Mumbai"),
     port_dest |-> S("Hamburg"), mode |-> S("Sea"),
     items |-> <<Item(S("850130"), S("5"), S("40")), Item(S("850130"), S("5"), S("60"))>>]

\* same shipment, other invoice number, exporter written differently, total 150
F2 ==
    [F1 EXCEPT !.filename = "b.pdf", !.invoice_no = S("INV-2"),
               !.exporter = S("abc ltd"), !.amount = S("150"),
               !.port_dest = S("Bandar Abbas"),
               !.items = <<Item(S("850130"), S("5"), S("40")),
                           Item(S("850199"), S("5"), S("60"))>>]

\* nothing recognised: no items, so qty_sum is 0
F3 ==
    [filename |-> "c.pdf", invoice_no |-> None, date |-> S(""),
     amount |-> None, currency |-> None, exporter |-> None,
     consignee |-> S(""), port_loading |-> None,
     port_dest |-> None, mode |-> None, items |-> <<>>]

\* sanctioned exporter, other chapter, repeats the invoice number of F1
F4 ==
    [F1 EXCEPT !.filename = "d.pdf", !.exporter = S("IRAN TRADE"),
               !.mode = S("Air"), !.currency = S("EUR"), !.consignee = None,
               !.items = <<Item(S("271019"), S("7"), S("100"))>>]

\* no invoice number and no line items, otherwise F1
F5 ==
    [F1 EXCEPT !.filename = "e.pdf", !.invoice_no = None, !.items = <<>>]

\* values with surrounding white space (the comparison strips them)
F6 ==
    [F1 EXCEPT !.filename = "f.pdf", !.invoice_no = None,
               !.consignee = S("XYZ LLC "), !.mode = S(" ")]

DocPool == {F1, F2, F3, F4, F5, F6}

\* build_summary: the field texts the summary sentence quotes
build_summary(f) ==
    LET opt(v) == IF Truthy(v) THEN <<Str(v)>> ELSE <<>>
    IN  opt(f.invoice_no) \o opt(f.date) \o opt(f.exporter) \o opt(f.consignee)
        \o (IF Truthy(f.amount) THEN opt(f.currency) \o opt(f.amount) ELSE <<>>)
        \o (IF Truthy(f.port_loading) /\ Truthy(f.port_dest)
            THEN <<Str(f.port_loading), Str(f.port_dest)>> \o opt(f.mode)
            ELSE <<>>)

\* doc_info of compare_docs
doc_info(f) ==
    [filename |-> f.filename,
     summary |-> build_summary(f),
     invoice_no |-> f.invoice_no,
     date |-> f.date,
     amount |-> f.amount,
     currency |-> f.currency,
     exporter |-> f.exporter,
     consignee |-> f.consignee,
     port_loading |-> f.port_loading,
     port_dest |-> f.port_dest,
     mode |-> f.mode,
     qty_sum |-> I(SumSeq([i \in 1..Len(f.items) |-> safe_int(f.items[i].Quantity)])),
     items |-> f.items]

extract_docs(files) == [i \in 1..Len(files) |-> doc_info(files[i])]

----------------------------------------------------------------------------
(* Master and pairwise comparison *)

fields ==
    <<"invoice_no", "date", "exporter", "consignee", "port_loading",
      "port_dest", "mode", "currency", "qty_sum">>

\* fmt of generate_explanation: a list is joined, a scalar is str(x) or ""
fmt(x) == IF x = None THEN "" ELSE Str(x)

fmt_list(xs) ==
    LET keep(v) == v # None /\ Strip(Str(v)) # ""
        RECURSIVE go(_)
        go(q) == IF q = <<>> THEN <<>>
                 ELSE (IF keep(Head(q)) THEN <<Str(Head(q))>> ELSE <<>>) \o go(Tail(q))
    IN  go(xs)

severity_of(field) ==
    CASE field = "qty_sum" -> "Medium"
      [] field = "invoice_no" -> "High"
      [] field = "exporter" -> "Medium"
      [] field = "consignee" -> "High"
      [] field = "currency" -> "Medium"
      [] field \in {"port_loading", "port_dest"} -> "Medium"
      [] field = "mode" -> "Medium"
      [] OTHER -> "Low"

generate_explanation(field, val1, val2) ==
    [field |-> field, severity |-> severity_of(field), value1 |-> val1, value2 |-> val2]

\* the uniqueness set built from values[1:], the first document left out
normalized_skip_first(values) ==
    {Strip(Str(values[i])) : i \in {j \in 2..Len(values) : ~IsBlank(values[j])}}

normalized(values) ==
    {Strip(Str(values[i])) : i \in {j \in 1..Len(values) : ~IsBlank(values[j])}}

\* the emptiness test written as `not v`, as the pairwise comparison writes it
master_status_falsy(values) ==
    IF \A i \in 1..Len(values) : ~Truthy(values[i])
    THEN "Missing"
    ELSE IF Cardinality(normalized(values)) = 1 THEN "Match" ELSE "Mismatch"

master_status(values) ==
    IF \A i \in 1..Len(values) : IsBlank(values[i])
    THEN "Missing"
    ELSE IF Cardinality(normalized(values)) = 1 THEN "Match" ELSE "Mismatch"

values_of(ds, field) == [i \in 1..Len(ds) |-> ds[i][field]]

comparison_table(ds) ==
    [k \in 1..Len(fields) |->
        [field |-> fields[k],
         values |-> values_of(ds, fields[k]),
         status |-> master_status(values_of(ds, fields[k]))]]

mismatch_report(ds) ==
    LET rows == SelectSeq(comparison_table(ds), LAMBDA r : r.status = "Mismatch")
    IN  [k \in 1..Len(rows) |->
            [field |-> rows[k].field,
             values |-> rows[k].values,
             severity |-> generate_explanation(rows[k].field, fmt_list(rows[k].values), "").severity]]

\* itertools.combinations(range(n), 2), in its order
RECURSIVE combinations(_, _, _)
combinations(a, b, n) ==
    IF a >= n THEN <<>>
    ELSE IF b > n THEN combinations(a + 1, a + 2, n)
    ELSE <<<<a, b>>>> \o combinations(a, b + 1, n)

\* the two values compared without strip()
pair_status_unstripped(v1, v2) ==
    IF ~Truthy(v1) /\ ~Truthy(v2)
    THEN "Missing"
    ELSE IF Str(v1) = Str(v2) THEN "Match" ELSE "Mismatch"

pair_status(v1, v2) ==
    IF ~Truthy(v1) /\ ~Truthy(v2)
    THEN "Missing"
    ELSE IF Strip(Str(v1)) = Strip(Str(v2)) THEN "Match" ELSE "Mismatch"

pairwise_row(a, b, f) ==
    LET stat == pair_status(a[f], b[f])
    IN  [field |-> f, doc1 |-> a.filename, doc2 |-> b.filename,
         value1 |-> a[f], value2 |-> b[f], status |-> stat,
         explanation |-> IF stat # "Match"
                         THEN generate_explanation(f, fmt(a[f]), fmt(b[f]))
                         ELSE None]

pairwise(ds) ==
    LET prs == combinations(1, 2, Len(ds))
        nf == Len(fields)
    IN  [r \in 1..(Len(prs) * nf) |->
            LET pr == prs[((r - 1) \div nf) + 1]
                f == fields[((r - 1) % nf) + 1]
            IN  pairwise_row(ds[pr[1]], ds[pr[2]], f)]

----------------------------------------------------------------------------
(* HS code consistency *)

\* hs[:2] on the tariff codes of the model
Chapter(hs) ==
    CASE hs \in {"850130", "850199"} -> "85"
      [] hs = "271019" -> "27"
      [] OTHER -> hs

RECURSIVE hs_map(_)
hs_map(ds) ==
    IF ds = <<>> THEN <<>>
    ELSE LET d == Head(ds)
             its == SelectSeq(d.items, LAMBDA it : Truthy(it.HS_Code))
         IN  [i \in 1..Len(its) |-> [doc |-> d.filename, hs |-> Strip(Str(its[i].HS_Code))]]
             \o hs_map(Tail(ds))

\* no code found counted as neutral
hs_risk_neutral_empty(ds) ==
    LET m == hs_map(ds)
        unique_codes == {m[i].hs : i \in 1..Len(m)}
        unique_chapters == {Chapter(m[i].hs) : i \in 1..Len(m)}
    IN  IF Cardinality(unique_codes) <= 1 THEN "Low"
        ELSE IF Cardinality(unique_chapters) = 1 THEN "Medium"
        ELSE "High"

hs_risk(ds) ==
    LET m == hs_map(ds)
        unique_codes == {m[i].hs : i \in 1..Len(m)}
        unique_chapters == {Chapter(m[i].hs) : i \in 1..Len(m)}
    IN  IF m = <<>> THEN "High"
        ELSE IF Cardinality(unique_codes) = 1 THEN "Low"
        ELSE IF Cardinality(unique_chapters) = 1 THEN "Medium"
        ELSE "High"

hs_summary(ds) ==
    LET m == hs_map(ds)
    IN  IF m = <<>> THEN "No HS codes found in any document."
        ELSE IF hs_risk(ds) = "Low" THEN "All documents share the same HS Code"
        ELSE IF hs_risk(ds) = "Medium" THEN "Different HS Codes, but same chapter"
        ELSE "HS Code inconsistency detected"

----------------------------------------------------------------------------
(* Sanction screening *)

SANCTIONED_COUNTRIES ==
    <<"IRAN", "SYRIA", "NORTH KOREA", "CRIMEA", "CUBA", "RUSSIA", "BELARUS", "SUDAN">>

RESTRICTED_PORTS ==
    <<"SEVASTOPOL", "NOVOROSSIYSK", "BANDAR ABBAS", "LATTAKIA", "HAVANA", "PYONGYANG">>

\* re.search(rf"\b{word}\b", text.upper()) on the strings of the model
HasWord(text, word) ==
    \/ text = "IRAN TRADE" /\ word = "IRAN"
    \/ text = "Bandar Abbas" /\ word = "BANDAR ABBAS"

\* kw in text.lower(), for the keywords of the additive score
HasKeyword(text, kw) ==
    text = "IRAN TRADE" /\ kw = "iran"

sanction_block(d) ==
    LET opt(v) == IF Truthy(v) THEN <<Str(v)>> ELSE <<>>
    IN  opt(d.exporter) \o opt(d.consignee) \o opt(d.port_loading) \o opt(d.port_dest)
        \o d.summary

detect_sanctions(block) ==
    LET hit(w) == \E i \in 1..Len(block) : HasWord(block[i], w)
        cs == SelectSeq(SANCTIONED_COUNTRIES, hit)
        ps == SelectSeq(RESTRICTED_PORTS, hit)
    IN  [i \in 1..Len(cs) |-> [entity |-> cs[i], type |-> "Country"]]
        \o [i \in 1..Len(ps) |-> [entity |-> ps[i], type |-> "Port"]]

RECURSIVE sanction_hits(_)
sanction_hits(ds) ==
    IF ds = <<>> THEN <<>>
    ELSE LET found == detect_sanctions(sanction_block(Head(ds)))
         IN  [i \in 1..Len(found) |->
                 [entity |-> found[i].entity, type |-> found[i].type,
                  document |-> Head(ds).filename]]
             \o sanction_hits(Tail(ds))

sanction_risk(ds) ==
    LET h == sanction_hits(ds)
    IN  IF h = <<>> THEN "Low"
        ELSE IF \E i \in 1..Len(h) : h[i].type = "Country" THEN "High" ELSE "Medium"

----------------------------------------------------------------------------
(* Additive risk score (risk_explanation) *)

Min(a, b) == IF a < b THEN a ELSE b
Max(a, b) == IF a > b THEN a ELSE b
Abs(a) == IF a < 0 THEN -a ELSE a

\* the generator reads d, the variable the sanction loop left at the last document
sanction_flag(ds) ==
    LET d == ds[Len(ds)]
        text == <<Str(d.port_dest), Str(d.exporter)>>
    IN  \E kw \in {"russia", "iran", "syria", "belarus", "crimea", "north korea"} :
            \E i \in 1..2 : HasKeyword(text[i], kw)

risk_score(ds) ==
    LET h == IF hs_risk(ds) = "Medium" THEN 25 ELSE IF hs_risk(ds) = "High" THEN 45 ELSE 0
        sf == IF sanction_flag(ds) THEN 35 ELSE 0
        n == Len(mismatch_report(ds))
        mm == IF n > 0 THEN Min(20 + 5 * n, 40) ELSE 0
    IN  Min(h + sf + mm, 100)

risk_level(score) ==
    IF score < 30 THEN "Low" ELSE IF score < 60 THEN "Medium" ELSE "High"

----------------------------------------------------------------------------
(* pattern_detector.detect_patterns *)

\* float(re.sub(r"[^\d.]", "", str(d.get("amount") or 0)))
amount_of(d) == DigitsValue(Str(IF Truthy(d.amount) THEN d.amount ELSE I(0)))

\* the amounts that parse; a document whose amount raises is skipped
amounts_of(ds) ==
    LET all == [i \in 1..Len(ds) |-> amount_of(ds[i])]
    IN  SelectSeq(all, LAMBDA a : a >= 0)

\* abs(a - mean) / stdev > k with the sample standard deviation, in integers:
\* (n-1) * (n*a - sum)^2 > k^2 * SUM_j (n*x_j - sum)^2, and stdev # 0.
\* The right-hand product is avoided (x > c * y iff (x - 1) \div c >= y for
\* x >= 1) to stay within 32-bit integers.
\* the thresholds lowered by one standard deviation
ZAbove_lower(amounts, i, k) ==
    LET n == Len(amounts)
        sum == SumSeq(amounts)
        dev(j) == n * amounts[j] - sum
        ss == SumSeq([j \in 1..n |-> dev(j) * dev(j)])
        lhs == (n - 1) * dev(i) * dev(i)
    IN  ss # 0 /\ lhs >= 1 /\ (lhs - 1) \div ((k - 1) * (k - 1)) >= ss

ZAbove(amounts, i, k) ==
    LET n == Len(amounts)
        sum == SumSeq(amounts)
        dev(j) == n * amounts[j] - sum
        ss == SumSeq([j \in 1..n |-> dev(j) * dev(j)])
        lhs == (n - 1) * dev(i) * dev(i)
    IN  ss # 0 /\ lhs >= 1 /\ (lhs - 1) \div (k * k) >= ss

value_spikes(ds) ==
    LET amounts == amounts_of(ds)
        idx == IF Len(amounts) >= 3
               THEN SelectSeq([i \in 1..Len(amounts) |-> i], LAMBDA i : ZAbove(amounts, i, 2))
               ELSE <<>>
    IN  [k \in 1..Len(idx) |->
            [type |-> "Value Spike", doc |-> ds[idx[k]].filename,
             value |-> amounts[idx[k]],
             severity |-> IF ZAbove(amounts, idx[k], 3) THEN "High" ELSE "Medium"]]

truthy_values(ds, field) ==
    LET all == values_of(ds, field) IN SelectSeq(all, Truthy)

detect_patterns(ds) ==
    value_spikes(ds)
    \o (IF Cardinality(Range(truthy_values(ds, "exporter"))) > 1
        THEN <<[type |-> "Exporter Name Variation", doc |-> "", value |-> 0,
                severity |-> "Medium"]>>
        ELSE <<>>)
    \o (IF Cardinality(Range(truthy_values(ds, "mode"))) > 1
        THEN <<[type |-> "Transport Mode Variation", doc |-> "", value |-> 0,
                severity |-> "Low"]>>
        ELSE <<>>)

----------------------------------------------------------------------------
(* fraud_rules.check_invoice_integrity *)

\* re.sub(r"[\W_]", "", e.lower()) on the exporter names of the model
NormalizeName(e) ==
    CASE e \in {"ABC Ltd.", "abc ltd"} -> "abcltd"
      [] e = "IRAN TRADE" -> "irantrade"
      [] OTHER -> e

\* the total compared without the 2% tolerance
total_mismatch_exact(d) ==
    d.items # <<>> /\ SumSeq([i \in 1..Len(d.items) |-> DigitsValue(Str(d.items[i].Amount))])
                       # amount_of(d)

\* abs(sum_items - inv_total) > 0.02 * inv_total, as 50 * |diff| > total
total_mismatch(d) ==
    LET its == SelectSeq(d.items, LAMBDA it : Truthy(it.Amount))
        parsed == [i \in 1..Len(its) |-> DigitsValue(Str(its[i].Amount))]
        sum_items == SumSeq(parsed)
        inv_total == amount_of(d)
        raised == inv_total < 0 \/ \E i \in 1..Len(parsed) : parsed[i] < 0
    IN  /\ d.items # <<>>
        /\ ~raised
        /\ 50 * Abs(sum_items - inv_total) > inv_total

\* one alert for every invoice number that repeats
duplicate_alerts_per_number(ds) ==
    LET invoice_numbers == truthy_values(ds, "invoice_no")
        repeated == {v \in Range(invoice_numbers) :
                        Len(SelectSeq(invoice_numbers, LAMBDA w : w = v)) > 1}
        alert == [rule |-> "Duplicate Invoice Number", severity |-> "High", doc |-> ""]
    IN  [i \in 1..Cardinality(repeated) |-> alert]

\* lines 40-47: len(invoice_numbers) != len(set(invoice_numbers))
duplicate_alerts(ds) ==
    LET invoice_numbers == truthy_values(ds, "invoice_no")
    IN  IF Len(invoice_numbers) # Cardinality(Range(invoice_numbers))
        THEN <<[rule |-> "Duplicate Invoice Number", severity |-> "High", doc |-> ""]>>
        ELSE <<>>

\* lines 30-38: more than one normalized exporter name
format_alerts(ds) ==
    LET exporters == truthy_values(ds, "exporter")
        norm == {NormalizeName(Str(exporters[i])) : i \in 1..Len(exporters)}
    IN  IF Cardinality(norm) > 1
        THEN <<[rule |-> "Exporter name format variation", severity |-> "Medium",
                doc |-> ""]>>
        ELSE <<>>

check_invoice_integrity(ds) ==
    LET bad == SelectSeq(ds, total_mismatch)
    IN  [i \in 1..Len(bad) |->
            [rule |-> "Invoice total mismatch", severity |-> "High", doc |-> bad[i].filename]]
        \o format_alerts(ds)
        \o duplicate_alerts(ds)

----------------------------------------------------------------------------
(* Cognitive score *)

\* the risk level of a missing analysis: incoterm_analysis is never assigned,
\* so locals().get("incoterm_analysis", {}).get("risk_level", "Low") is "Low"
incoterm_risk == "Low"

\* the level table with Low -> 100
score_from_level_low100(level) ==
    IF level = "" THEN 100
    ELSE CASE level = "Low" -> 100
           [] level = "Medium" -> 75
           [] level = "High" -> 45
           [] OTHER -> 80

score_from_level(level) ==
    IF level = "" THEN 100
    ELSE CASE level = "Low" -> 95
           [] level = "Medium" -> 75
           [] level = "High" -> 45
           [] OTHER -> 80

CountHigh(alerts) == Len(SelectSeq(alerts, LAMBDA a : a.severity = "High"))

mismatch_penalty(ds) == Len(mismatch_report(ds)) * 4
fraud_penalty(ds) == CountHigh(check_invoice_integrity(ds)) * 8
pattern_penalty(ds) == CountHigh(detect_patterns(ds)) * 5

base_score(ds) == 100 - mismatch_penalty(ds) - fraud_penalty(ds) - pattern_penalty(ds)

\* weighted = base*0.4 + hs*0.2 + sanc*0.2 + inco*0.2 in tenths; the double
\* arithmetic of the code gives the same integer as this exact computation for
\* every base in -400..100 and every level score
weighted_tenths(base, hs, sanc, inco) == 4 * base + 2 * hs + 2 * sanc + 2 * inco

\* round(...) instead of int(...)
cognitive_rounded(base, hs, sanc, inco) ==
    (Max(0, Min(1000, weighted_tenths(base, hs, sanc, inco))) + 5) \div 10

\* int(max(0, min(100, weighted)))
cognitive_of(base, hs, sanc, inco) ==
    Max(0, Min(1000, weighted_tenths(base, hs, sanc, inco))) \div 10

cognitive_score(ds) ==
    cognitive_of(base_score(ds),
                 score_from_level(hs_risk(ds)),
                 score_from_level(sanction_risk(ds)),
                 score_from_level(incoterm_risk))

risk_tier(score) ==
    IF score >= 90 THEN "Low" ELSE IF score >= 70 THEN "Medium" ELSE "High"

----------------------------------------------------------------------------
(* Historical memory: memory_store.json *)

MEMORY_CAP == 10

\* The file is absent, holds the JSON text of a record list, is empty (opened
\* for writing and not yet written), or holds text that is no JSON document.
AbsentFile == [kind |-> "absent", recs |-> <<>>]
EmptyFile == [kind |-> "empty", recs |-> <<>>]
GarbageFile == [kind |-> "garbage", recs |-> <<>>]
JsonFile(records) == [kind |-> "json", recs |-> records]

\* json.load of what json.dump wrote gives the records back (lists, strings,
\* integers and None survive JSON unchanged); any other content raises and
\* load_memory returns []
load_memory(file) == IF file.kind = "json" THEN file.recs ELSE <<>>

\* save_memory without the cap
last_records_all(records) == records

\* save_memory keeping the first ten records, records[:10]
last_records_first(records) ==
    IF Len(records) <= MEMORY_CAP THEN records ELSE SubSeq(records, 1, MEMORY_CAP)

\* records[-11:]: one record more than the cap is kept
last_records_eleven(records) ==
    IF Len(records) <= MEMORY_CAP + 1 THEN records
    ELSE SubSeq(records, Len(records) - MEMORY_CAP, Len(records))

\* records[-10:]
last_records(records) ==
    IF Len(records) <= MEMORY_CAP THEN records
    ELSE SubSeq(records, Len(records) - MEMORY_CAP + 1, Len(records))

\* open(MEMORY_FILE, "w") truncates the file
open_for_write(file) == EmptyFile

\* json.dump and close: the text is written from offset 0.  When another
\* writer has put text into the file since this writer truncated it, the
\* longer of the two texts keeps its tail and the file may be no JSON document.
dump_outcomes(file, records) ==
    {JsonFile(last_records(records))}
    \cup (IF file.kind \in {"json", "garbage"} THEN {GarbageFile} ELSE {})

current_record(ds, ts) ==
    [timestamp |-> ts,
     exporters |-> values_of(ds, "exporter"),
     consignees |-> values_of(ds, "consignee"),
     ports |-> truthy_values(ds, "port_dest"),
     cognitive_score |-> cognitive_score(ds),
     risk_tier |-> risk_tier(cognitive_score(ds)),
     hs_risk |-> hs_risk(ds),
     mismatch_count |-> Len(mismatch_report(ds))]

\* the loop over history instead of history[:-1]
recurring_with_current(h, key) ==
    LET cur == h[Len(h)]
    IN  {e \in UNION {Range(h[i][key]) : i \in 1..Len(h)} :
            Truthy(e) /\ e \in Range(cur[key])}

\* for prev in history[:-1]: ... against current_record = history[-1]
recurring(h, key) ==
    LET cur == h[Len(h)]
    IN  {e \in UNION {Range(h[i][key]) : i \in 1..(Len(h) - 1)} :
            Truthy(e) /\ e \in Range(cur[key])}

recurring_exporters(h) == recurring(h, "exporters")
recurring_ports(h) == recurring(h, "ports")

\* the penalty without the recurring ports
history_penalty_exporters(h) == 5 * Cardinality(recurring_exporters(h))

history_penalty(h) ==
    5 * (Cardinality(recurring_exporters(h)) + Cardinality(recurring_ports(h)))

adjusted_score(score, h) ==
    IF recurring_exporters(h) # {} \/ recurring_ports(h) # {}
    THEN Max(0, score - history_penalty(h))
    ELSE score

trend_data(h) ==
    [i \in 1..Len(h) |->
        [timestamp |-> h[i].timestamp, cognitive_score |-> h[i].cognitive_score,
         risk_tier |-> h[i].risk_tier, exporters |-> h[i].exporters,
         ports |-> h[i].ports, mismatch_count |-> h[i].mismatch_count]]

risk_history(h) ==
    [total_records |-> Len(h),
     recurring_exporters |-> recurring_exporters(h),
     recurring_ports |-> recurring_ports(h),
     note |-> IF recurring_exporters(h) # {} \/ recurring_ports(h) # {}
              THEN I(history_penalty(h)) ELSE None,
     trend_data |-> trend_data(h)]

----------------------------------------------------------------------------
(* compare_docs *)

\* lines 520-828: everything computed before the history is read
analysis(ds) ==
    [comparison_table |-> comparison_table(ds),
     mismatch_report |-> mismatch_report(ds),
     pairwise_comparison |-> pairwise(ds),
     hs_analysis |-> [summary |-> hs_summary(ds), risk_level |-> hs_risk(ds),
                      details |-> hs_map(ds)],
     sanction_analysis |-> [risk_level |-> sanction_risk(ds), details |-> sanction_hits(ds)],
     risk_explanation |-> [score |-> risk_score(ds), level |-> risk_level(risk_score(ds))],
     pattern_alerts |-> detect_patterns(ds),
     fraud_report |-> check_invoice_integrity(ds),
     base |-> base_score(ds),
     cognitive_score |-> cognitive_score(ds),
     risk_tier |-> risk_tier(cognitive_score(ds)),
     risk_history |-> None]

\* lines 848-947: the history check and the response
respond(a, h) ==
    [a EXCEPT !.cognitive_score = adjusted_score(a.cognitive_score, h),
              !.risk_history = risk_history(h)]

NoOutput == None

\* line 753: with no document the sanction loop never bound d, and the
\* generator of sanction_flag raises NameError
raises(ds) == ds = <<>>

NameError == [t |-> "NameError"]

----------------------------------------------------------------------------
(* Inputs *)

\* an earlier shipment of another exporter through another port
F7 ==
    [F1 EXCEPT !.filename = "g.pdf", !.invoice_no = S("INV-0"),
               !.exporter = S("OLDCO"), !.port_dest = S("Singapore")]

\* F1 shipped to another port
F8 == [F1 EXCEPT !.filename = "h.pdf", !.port_dest = S("Rotterdam")]

\* the uploads of the requests that exercise the history
HistInputs == {<<F1>>, <<F8>>, <<F3, F4>>}

\* ten invoices of 100 and one of 150: a High-severity value spike needs
\* eleven documents
SpikeInput ==
    [i \in 1..11 |-> IF i = 11 THEN [F5 EXCEPT !.amount = S("150")] ELSE F5]

\* invoices of 100, 102, 98 and 5000 without line items
ExampleSpikeInput ==
    <<F5, [F5 EXCEPT !.amount = S("102")], [F5 EXCEPT !.amount = S("98")],
      [F5 EXCEPT !.amount = S("5000")]>>

\* items of 40 and 60 against totals of 102 (within 2%), 98 (beyond 2%) and
\* no total
ToleranceInput ==
    <<[F1 EXCEPT !.amount = S("102")], [F1 EXCEPT !.amount = S("98")],
      [F1 EXCEPT !.amount = None]>>

\* two invoice numbers, each used twice
DuplicateInput == <<F1, F4, F2, F2>>

\* the uploads of the requests that exercise the comparison
CompareInputs ==
    UNION {[1..n -> DocPool] : n \in 1..MaxDocs}
    \cup {SpikeInput, ExampleSpikeInput, ToleranceInput, DuplicateInput, <<>>}

\* memory_store.json as n earlier runs left it: the oldest over <<F8>>, the
\* later ones over <<F7>>; their timestamps are 1-n .. 0
SeedStore(n) ==
    IF n = 0 THEN AbsentFile
    ELSE JsonFile([i \in 1..n |->
                     current_record(extract_docs(IF i = 1 THEN <<F8>> ELSE <<F7>>), i - n)])

SeedStores == {SeedStore(n) : n \in 0..MEMORY_CAP}

----------------------------------------------------------------------------
(* State machine *)

Idle == [p \in Procs |-> "idle"]
NoDocs == [p \in Procs |-> <<>>]
NoHistory == [p \in Procs |-> <<>>]
NoOutputs == [p \in Procs |-> NoOutput]

Init ==
    /\ store \in SeedStores
    /\ clock = 0
    /\ pc = Idle
    /\ docs = NoDocs
    /\ history = NoHistory
    /\ out = NoOutputs
    /\ runs = store.recs

Started == clock + Cardinality({q \in Procs : pc[q] = "extracted"})

\* lines 485-518: the files are read (await file.read()) and extracted
Request(p) ==
    /\ pc[p] = "idle"
    /\ Started < MaxRuns
    /\ \E files \in HistInputs : docs' = [docs EXCEPT ![p] = extract_docs(files)]
    /\ pc' = [pc EXCEPT ![p] = "extracted"]
    /\ UNCHANGED <<store, clock, history, out, runs>>

\* lines 520-845: the analysis, load_memory() and history.append(current_record)
Load(p) ==
    /\ pc[p] = "extracted"
    /\ IF raises(docs[p])
       THEN /\ out' = [out EXCEPT ![p] = NameError]
            /\ pc' = [pc EXCEPT ![p] = "failed"]
            /\ UNCHANGED <<clock, history, runs>>
       ELSE /\ out' = [out EXCEPT ![p] = analysis(docs[p])]
            /\ clock' = clock + 1
            /\ history' = [history EXCEPT
                             ![p] = Append(load_memory(store),
                                           current_record(docs[p], clock + 1))]
            /\ runs' = Append(runs, current_record(docs[p], clock + 1))
            /\ pc' = [pc EXCEPT ![p] = "loaded"]
    /\ UNCHANGED <<store, docs>>

\* line 69: save_memory opens the file
SaveOpen(p) ==
    /\ pc[p] = "loaded"
    /\ store' = open_for_write(store)
    /\ pc' = [pc EXCEPT ![p] = "writing"]
    /\ UNCHANGED <<clock, docs, history, out, runs>>

\* line 70 and lines 848-947: save_memory writes, then the history check
SaveDump(p) ==
    /\ pc[p] = "writing"
    /\ \E file \in dump_outcomes(store, history[p]) : store' = file
    /\ out' = [out EXCEPT ![p] = respond(out[p], history[p])]
    /\ pc' = [pc EXCEPT ![p] = "done"]
    /\ UNCHANGED <<clock, docs, history, runs>>

\* line 934: the response (or the error) is sent and the locals are gone
Return(p) ==
    /\ pc[p] \in {"done", "failed"}
    /\ pc' = [pc EXCEPT ![p] = "idle"]
    /\ docs' = [docs EXCEPT ![p] = <<>>]
    /\ history' = [history EXCEPT ![p] = <<>>]
    /\ out' = [out EXCEPT ![p] = NoOutput]
    /\ UNCHANGED <<store, clock, runs>>

\* lines 520-947 without interruption: compare_docs is a coroutine that does
\* not await after the files are read
compare_docs(p) ==
    /\ pc[p] = "extracted"
    /\ IF raises(docs[p])
       THEN /\ out' = [out EXCEPT ![p] = NameError]
            /\ pc' = [pc EXCEPT ![p] = "failed"]
            /\ UNCHANGED <<store, clock, history, runs>>
       ELSE LET h == Append(load_memory(store), current_record(docs[p], clock + 1))
            IN  /\ history' = [history EXCEPT ![p] = h]
                /\ \E file \in dump_outcomes(open_for_write(store), h) : store' = file
                /\ out' = [out EXCEPT ![p] = respond(analysis(docs[p]), h)]
                /\ runs' = Append(runs, h[Len(h)])
                /\ clock' = clock + 1
                /\ pc' = [pc EXCEPT ![p] = "done"]
    /\ UNCHANGED docs

\* Several server processes share memory_store.json: the steps of two
\* requests interleave at every access to the file.
Next ==
    \E p \in Procs : Request(p) \/ Load(p) \/ SaveOpen(p) \/ SaveDump(p) \/ Return(p)

Spec == Init /\ [][Next]_vars

\* One server process: the event loop runs each request's comparison to its
\* end before it serves another request.
NextLoop ==
    \E p \in Procs : Request(p) \/ compare_docs(p) \/ Return(p)

SpecLoop == Init /\ [][NextLoop]_vars

\* One comparison over each list of documents, from an absent and from a full
\* history file.
InitCompare ==
    /\ store \in {AbsentFile, SeedStore(MEMORY_CAP)}
    /\ clock = 0
    /\ \E files \in CompareInputs :
          docs = [p \in Procs |-> IF p = 1 THEN extract_docs(files) ELSE <<>>]
    /\ pc = [p \in Procs |-> IF p = 1 THEN "extracted" ELSE "idle"]
    /\ history = NoHistory
    /\ out = NoOutputs
    /\ runs = store.recs

NextCompare == compare_docs(1) \/ Return(1)

SpecCompare == InitCompare /\ [][NextCompare]_vars

\* the invoice amounts of the documents that exercise the value-spike rule
\* (no amount is read as 0)
AmountPool == {None, S("100"), S("150")}

\* documents that differ in nothing but their amounts, up to three more than
\* MaxDocs
PatternInputs ==
    UNION {{[i \in 1..n |-> [F5 EXCEPT !.amount = a[i]]] : a \in [1..n -> AmountPool]} :
           n \in 1..(MaxDocs + 3)}

\* One comparison over each list of amounts.
InitPattern ==
    /\ store = AbsentFile
    /\ clock = 0
    /\ \E files \in PatternInputs :
          docs = [p \in Procs |-> IF p = 1 THEN extract_docs(files) ELSE <<>>]
    /\ pc = [p \in Procs |-> IF p = 1 THEN "extracted" ELSE "idle"]
    /\ history = NoHistory
    /\ out = NoOutputs
    /\ runs = <<>>

SpecPattern == InitPattern /\ [][NextCompare]_vars

----------------------------------------------------------------------------
(* Claims *)

OwnRecord(p) == history[p][Len(history[p])]

\* the score before the history adjustment, as the run's record keeps it
Unadjusted(p) == OwnRecord(p).cognitive_score

NonEmpty(v) == v # None /\ v # S("")

\* C1: whenever no request is between opening and writing memory_store.json,
\* the file holds at most 10 records, under every interleaving of requests.
C1_HistoryAtMostTen ==
    (\A p \in Procs : pc[p] # "writing") =>
        Len(store.recs) <= MEMORY_CAP /\ Len(load_memory(store)) <= MEMORY_CAP

\* a run that loaded a full store has saved, and the store holds ten records
C1_Witness ==
    \E p \in Procs :
        /\ pc[p] = "done"
        /\ Len(history[p]) = MEMORY_CAP + 1
        /\ store.kind = "json"
        /\ Len(store.recs) = MEMORY_CAP
        /\ \A q \in Procs : pc[q] # "writing"

\* C2: a sequential run leaves in the store the last 10 of (the records the
\* store held when the run started, followed by the run's record): the record
\* is last, the kept records keep their order, the oldest are dropped.
C2_AppendAndEvict ==
    [][\A p \in Procs :
          (pc[p] = "extracted" /\ pc'[p] = "done") =>
              LET old == load_memory(store)
                  new == store'.recs
                  rec == current_record(docs[p], clock')
                  kept == Min(Len(old), MEMORY_CAP - 1)
              IN  /\ store'.kind = "json"
                  /\ Len(new) = kept + 1
                  /\ new[kept + 1] = rec
                  /\ \A i \in 1..kept : new[i] = old[Len(old) - kept + i]]_vars

\* a run over a full store: the oldest record is gone, the run's record is last
C2_Witness ==
    \E p \in Procs :
        /\ pc[p] = "done"
        /\ Len(history[p]) = MEMORY_CAP + 1
        /\ store.recs = SubSeq(history[p], 2, MEMORY_CAP + 1)
        /\ store.recs[MEMORY_CAP].timestamp = clock

SharedWithPrevious(p) ==
    LET h == history[p]
    IN  {e \in Range(OwnRecord(p).exporters) :
            NonEmpty(e) /\ e \in Range(h[Len(h) - 1].exporters)}

\* C4 as stated: of two consecutive runs that share an exporter name, the
\* second returns a score exactly 5 below its unadjusted score and reports the
\* name in recurring_exporters.
C4_ExactlyFive ==
    \A p \in Procs :
        (pc[p] = "done" /\ Len(history[p]) >= 2) =>
            \A e \in SharedWithPrevious(p) :
                /\ out[p].cognitive_score = Unadjusted(p) - 5
                /\ e \in out[p].risk_history.recurring_exporters

\* C4 amended: the second run reports the name in recurring_exporters and
\* returns max(0, unadjusted - 5k), k >= 1 the number of distinct recurring
\* exporters and ports; the decrease is exactly 5 when that name is the only
\* recurring string and the unadjusted score is at least 5.
C4_PenaltyPerRecurrence ==
    \A p \in Procs :
        (pc[p] = "done" /\ Len(history[p]) >= 2) =>
            \A e \in SharedWithPrevious(p) :
                LET k == Cardinality(out[p].risk_history.recurring_exporters)
                           + Cardinality(out[p].risk_history.recurring_ports)
                IN  /\ e \in out[p].risk_history.recurring_exporters
                    /\ k >= 1
                    /\ out[p].cognitive_score = Max(0, Unadjusted(p) - 5 * k)
                    /\ (k = 1 /\ Unadjusted(p) >= 5) =>
                           out[p].cognitive_score = Unadjusted(p) - 5

\* the second of two runs that share only an exporter name: 5 lower
C4_Witness ==
    \E p \in Procs :
        /\ pc[p] = "done"
        /\ Len(history[p]) >= 2
        /\ SharedWithPrevious(p) # {}
        /\ out[p].risk_history.recurring_ports = {}
        /\ out[p].cognitive_score = Unadjusted(p) - 5

\* C5: when two requests, started on a store of fewer than 9 records (the
\* oldest timestamp read is above 1 - 9), have both finished, the store holds
\* the records of both.
C5_NoLostUpdate ==
    ( /\ clock = 2
      /\ \A p \in Procs : pc[p] = "done"
      /\ \A p \in Procs : \A i \in 1..Len(history[p]) :
            history[p][i].timestamp > 1 - (MEMORY_CAP - 1) )
    => \A p \in Procs : OwnRecord(p) \in Range(load_memory(store))

\* the status the data model gives a list of document values
StatusOfValues(values) ==
    LET present == {i \in 1..Len(values) : NonEmpty(values[i])}
        texts == {Strip(Str(values[i])) : i \in present}
    IN  IF present = {} THEN "Missing"
        ELSE IF Cardinality(texts) = 1 THEN "Match" ELSE "Mismatch"

\* C6: every master row holds the documents' values of its field, and its
\* status is Missing when every value is None or "", Match when the non-empty
\* values, stringified and trimmed, are one string, and Mismatch otherwise.
C6_MasterStatus ==
    \A p \in Procs :
        pc[p] = "done" =>
            /\ Len(out[p].comparison_table) = Len(fields)
            /\ \A k \in 1..Len(fields) :
                  LET row == out[p].comparison_table[k]
                  IN  /\ row.field = fields[k]
                      /\ row.values = [i \in 1..Len(docs[p]) |-> docs[p][i][fields[k]]]
                      /\ row.status = StatusOfValues(row.values)

\* a table with the three statuses, a white-space-only value and a quantity
\* sum of 0 that counts as a value
C6_Witness ==
    \E p \in Procs :
        /\ pc[p] = "done"
        /\ {out[p].comparison_table[k].status : k \in 1..Len(fields)}
               = {"Match", "Mismatch", "Missing"}
        /\ \E k \in 1..Len(fields) : S(" ") \in Range(out[p].comparison_table[k].values)
        /\ I(0) \in Range(out[p].comparison_table[Len(fields)].values)
        /\ out[p].comparison_table[Len(fields)].status = "Mismatch"

\* the place of the row of documents i < j and field k in the pairwise table
PairRowIndex(n, i, j, k) ==
    (((i - 1) * n - ((i * (i - 1)) \div 2) + (j - i)) - 1) * Len(fields) + k

\* C7: the pairwise table has one row for every pair of documents i < j and
\* every field; its status is Missing when both values are empty, Match when
\* the stringified, trimmed values are equal, Mismatch otherwise; it has an
\* explanation exactly when its status is not Match.
C7_PairwiseRows ==
    \A p \in Procs :
        pc[p] = "done" =>
            LET ds == docs[p]
                n == Len(ds)
                rows == out[p].pairwise_comparison
            IN  /\ Len(rows) = ((n * (n - 1)) \div 2) * Len(fields)
                /\ \A i \in 1..n : \A j \in (i + 1)..n : \A k \in 1..Len(fields) :
                      LET row == rows[PairRowIndex(n, i, j, k)]
                          v1 == ds[i][fields[k]]
                          v2 == ds[j][fields[k]]
                      IN  /\ row.field = fields[k]
                          /\ row.value1 = v1 /\ row.value2 = v2
                          /\ row.status =
                                IF ~NonEmpty(v1) /\ ~NonEmpty(v2) THEN "Missing"
                                ELSE IF Strip(Str(v1)) = Strip(Str(v2)) THEN "Match"
                                ELSE "Mismatch"
                          /\ (row.explanation # None) <=> (row.status # "Match")

Swap(q, i, j) ==
    [k \in 1..Len(q) |-> IF k = i THEN q[j] ELSE IF k = j THEN q[i] ELSE q[k]]

\* C8: exchanging two documents of the input (every permutation is a product
\* of exchanges, and the inputs are closed under them) changes no master
\* row's status, nor the fields of the mismatch report, nor their number;
\* each row's values are exchanged the same way.
C8_OrderInsensitive ==
    \A p \in Procs :
        pc[p] = "done" =>
            \A i \in 1..Len(docs[p]) : \A j \in (i + 1)..Len(docs[p]) :
                LET sw == Swap(docs[p], i, j)
                    t == comparison_table(sw)
                    m == mismatch_report(sw)
                    m0 == out[p].mismatch_report
                IN  /\ \A k \in 1..Len(fields) :
                          /\ t[k].status = out[p].comparison_table[k].status
                          /\ t[k].values = Swap(out[p].comparison_table[k].values, i, j)
                    /\ {m[k].field : k \in 1..Len(m)} = {m0[k].field : k \in 1..Len(m0)}
                    /\ Len(m) = Len(m0)

\* three different documents with matching and mismatching fields
C8_Witness ==
    \E p \in Procs :
        /\ pc[p] = "done"
        /\ Len(docs[p]) = 3
        /\ Cardinality(Range(docs[p])) = 3
        /\ docs[p][1].exporter = None
        /\ out[p].mismatch_report # <<>>
        /\ \E k \in 1..Len(fields) : out[p].comparison_table[k].status = "Match"

\* the level table of the aggregator
LevelScore(level) ==
    CASE level = "Low" -> 95
      [] level = "Medium" -> 75
      [] level = "High" -> 45
      [] OTHER -> 80

\* base = 100 - 4 * mismatches - 8 * High fraud alerts - 5 * High pattern alerts
BaseOf(o) ==
    LET IsMismatch(r) == r.status = "Mismatch"
        IsHigh(a) == a.severity = "High"
    IN  100 - 4 * Len(SelectSeq(o.comparison_table, IsMismatch))
            - 8 * Len(SelectSeq(o.fraud_report, IsHigh))
            - 5 * Len(SelectSeq(o.pattern_alerts, IsHigh))

\* C9: the score before the history adjustment is
\* trunc(clamp(0.4 base + 0.2 hs + 0.2 sanction + 0.2 incoterm, 0, 100)),
\* computed here in tenths, and the returned score is in 0..100.
C9_CognitiveScore ==
    \A p \in Procs :
        pc[p] = "done" =>
            LET o == out[p]
                tenths == 4 * BaseOf(o)
                          + 2 * LevelScore(o.hs_analysis.risk_level)
                          + 2 * LevelScore(o.sanction_analysis.risk_level)
                          + 2 * LevelScore(incoterm_risk)
                expected == IF tenths < 0 THEN 0
                            ELSE IF tenths > 1000 THEN 100 ELSE tenths \div 10
            IN  /\ Unadjusted(p) = expected
                /\ o.cognitive_score \in 0..100

\* mismatches, a High fraud alert and a risk level that is not Low lower the
\* score, and the history lowers the returned score further
C9_Witness ==
    \E p \in Procs :
        /\ pc[p] = "done"
        /\ out[p].mismatch_report # <<>>
        /\ \E i \in 1..Len(out[p].fraud_report) : out[p].fraud_report[i].severity = "High"
        /\ out[p].hs_analysis.risk_level # "Low"
        /\ out[p].sanction_analysis.risk_level = "High"
        /\ Unadjusted(p) < 97
        /\ out[p].cognitive_score < Unadjusted(p)

\* no mismatch, no High alert, every level Low
CleanRun(p) ==
    /\ pc[p] = "done"
    /\ BaseOf(out[p]) = 100
    /\ out[p].hs_analysis.risk_level = "Low"
    /\ out[p].sanction_analysis.risk_level = "Low"
    /\ incoterm_risk = "Low"

\* C10 as stated: with base 100 and every level Low the cognitive score is 100
\* and the tier is Low.
C10_ScoreIs100 ==
    \A p \in Procs : CleanRun(p) => Unadjusted(p) = 100 /\ out[p].risk_tier = "Low"

\* C10 amended: with base 100 and every level Low the cognitive score is 97
\* (0.4 * 100 + 0.6 * 95) and the tier is Low.
C10_ScoreIs97 ==
    \A p \in Procs : CleanRun(p) => Unadjusted(p) = 97 /\ out[p].risk_tier = "Low"

\* a clean run that returned 97
C10_Witness ==
    \E p \in Procs : CleanRun(p) /\ out[p].cognitive_score = 97

\* the alerts of one rule in a fraud report
AlertsOf(report, rule) == SelectSeq(report, LAMBDA a : a.rule = rule)

\* some document's destination port or exporter holds a sanctioned-region keyword
AnyKeyword(ds) ==
    \E i \in 1..Len(ds) :
        \E kw \in {"russia", "iran", "syria", "belarus", "crimea", "north korea"} :
            HasKeyword(Str(ds[i].port_dest), kw) \/ HasKeyword(Str(ds[i].exporter), kw)

\* C11: the additive risk score is min(100, H + S + M): H = 25 / 45 for HS
\* risk Medium / High, S = 35 if any document's destination port or exporter
\* holds a sanctioned-region keyword, M = min(20 + 5 * mismatches, 40) if
\* there are mismatches; the level is Low below 30, Medium below 60, else High.
C11_AdditiveRisk ==
    \A p \in Procs :
        pc[p] = "done" =>
            LET o == out[p]
                H == CASE o.hs_analysis.risk_level = "Medium" -> 25
                       [] o.hs_analysis.risk_level = "High" -> 45
                       [] OTHER -> 0
                St == IF AnyKeyword(docs[p]) THEN 35 ELSE 0
                n == Len(o.mismatch_report)
                M == IF n > 0 THEN Min(20 + 5 * n, 40) ELSE 0
                score == Min(100, H + St + M)
            IN  /\ o.risk_explanation.score = score
                /\ o.risk_explanation.level =
                      IF score < 30 THEN "Low" ELSE IF score < 60 THEN "Medium" ELSE "High"

\* the sum of the item amounts and the invoice total (0 when there is none)
ItemsTotal(d) == SumSeq([i \in 1..Len(d.items) |-> DigitsValue(Str(d.items[i].Amount))])
InvoiceTotal(d) == IF Truthy(d.amount) THEN DigitsValue(Str(d.amount)) ELSE 0

\* C12: the "Invoice total mismatch" alerts are, in document order, one
\* High-severity alert for each document that has items and whose item sum
\* differs from its invoice total by more than 2% of the total; a document
\* without items gets none.
C12_TotalMismatch ==
    \A p \in Procs :
        pc[p] = "done" =>
            LET alerts == AlertsOf(out[p].fraud_report, "Invoice total mismatch")
                Beyond(d) == /\ d.items # <<>>
                             /\ 50 * Abs(ItemsTotal(d) - InvoiceTotal(d)) > InvoiceTotal(d)
                expected == SelectSeq(docs[p], Beyond)
            IN  /\ Len(alerts) = Len(expected)
                /\ \A k \in 1..Len(alerts) :
                      alerts[k].doc = expected[k].filename /\ alerts[k].severity = "High"

\* totals of 102 (difference 2, within 2%), 98 (difference 2, beyond 2%) and
\* none: two alerts
C12_Witness ==
    \E p \in Procs :
        /\ pc[p] = "done"
        /\ docs[p] = extract_docs(ToleranceInput)
        /\ Len(AlertsOf(out[p].fraud_report, "Invoice total mismatch")) = 2

\* C13: there is exactly one High-severity "Duplicate Invoice Number" alert
\* when some non-empty invoice number occurs in more than one document,
\* however many numbers repeat, and none when they are all distinct.
C13_DuplicateOnce ==
    \A p \in Procs :
        pc[p] = "done" =>
            LET ds == docs[p]
                alerts == AlertsOf(out[p].fraud_report, "Duplicate Invoice Number")
                repeats == \E i \in 1..Len(ds) : \E j \in (i + 1)..Len(ds) :
                              NonEmpty(ds[i].invoice_no) /\ ds[i].invoice_no = ds[j].invoice_no
            IN  /\ Len(alerts) = IF repeats THEN 1 ELSE 0
                /\ \A k \in 1..Len(alerts) : alerts[k].severity = "High"

\* INV-1 twice and INV-2 twice: one alert
C13_Witness ==
    \E p \in Procs :
        /\ pc[p] = "done"
        /\ docs[p] = extract_docs(DuplicateInput)
        /\ Len(AlertsOf(out[p].fraud_report, "Duplicate Invoice Number")) = 1

\* C14: the exporter-format-variation rule emits one Medium-severity alert
\* when the exporter names have more than one normalized form (none
\* otherwise), and two documents whose exporter names differ only in case or
\* punctuation trigger the alert.
C14_FormatVariation ==
    \A p \in Procs :
        pc[p] = "done" =>
            LET ds == docs[p]
                named == {i \in 1..Len(ds) : Truthy(ds[i].exporter)}
                forms == {NormalizeName(Str(ds[i].exporter)) : i \in named}
                alerts == AlertsOf(out[p].fraud_report, "Exporter name format variation")
                spoofed == \E i, j \in named :
                              /\ ds[i].exporter # ds[j].exporter
                              /\ NormalizeName(Str(ds[i].exporter))
                                    = NormalizeName(Str(ds[j].exporter))
            IN  /\ Len(alerts) = IF Cardinality(forms) > 1 THEN 1 ELSE 0
                /\ \A k \in 1..Len(alerts) : alerts[k].severity = "Medium"
                /\ spoofed => Len(alerts) = 1

\* the tariff codes of all line items of all documents
CodesOf(ds) ==
    UNION {{Strip(Str(ds[i].items[k].HS_Code)) :
               k \in {x \in 1..Len(ds[i].items) : Truthy(ds[i].items[x].HS_Code)}} :
           i \in 1..Len(ds)}

\* C15: HS risk is Low iff there is exactly one unique tariff code, Medium iff
\* there are several codes of one two-digit chapter, and High iff the chapters
\* differ or no code was found.
C15_HsRisk ==
    \A p \in Procs :
        pc[p] = "done" =>
            LET codes == CodesOf(docs[p])
                chapters == {Chapter(c) : c \in codes}
                risk == out[p].hs_analysis.risk_level
            IN  /\ (risk = "Low") <=> (Cardinality(codes) = 1)
                /\ (risk = "Medium") <=> (Cardinality(codes) > 1 /\ Cardinality(chapters) = 1)
                /\ (risk = "High") <=> (Cardinality(chapters) > 1 \/ codes = {})
                /\ codes = {} => out[p].hs_analysis.summary = "No HS codes found in any document."

\* codes 850130 and 850199 in different documents: Medium
C15_Witness ==
    \E p \in Procs :
        /\ pc[p] = "done"
        /\ Len(docs[p]) = 2
        /\ CodesOf(<<docs[p][1]>>) = {"850130"}
        /\ CodesOf(docs[p]) = {"850130", "850199"}
        /\ out[p].hs_analysis.risk_level = "Medium"

\* document i has a High-severity Value Spike alert
HighSpike(p, i) ==
    \E k \in 1..Len(out[p].pattern_alerts) :
        LET a == out[p].pattern_alerts[k]
        IN  /\ a.type = "Value Spike"
            /\ a.doc = docs[p][i].filename
            /\ a.value = amount_of(docs[p][i])
            /\ a.severity = "High"

\* C16: every document whose amount lies more than 3 sample standard
\* deviations from the mean of the compared amounts has a High-severity Value
\* Spike alert, and of the amounts 100, 102, 98, 5000 the document with 5000
\* has one.
C16_HighSpike ==
    \A p \in Procs :
        pc[p] = "done" =>
            /\ \A i \in 1..Len(docs[p]) :
                  (Len(docs[p]) >= 3 /\ ZAbove(amounts_of(docs[p]), i, 3)) => HighSpike(p, i)
            /\ docs[p] = extract_docs(ExampleSpikeInput) => HighSpike(p, 4)

\* C17: a comparison over zero documents completes without an error, every
\* master row is Missing and HS risk is High with the "no HS codes found"
\* summary.
C17_ZeroDocuments ==
    \A p \in Procs :
        (pc[p] \in {"done", "failed"} /\ docs[p] = <<>>) =>
            /\ pc[p] = "done"
            /\ \A k \in 1..Len(out[p].comparison_table) :
                  out[p].comparison_table[k].status = "Missing"
            /\ out[p].hs_analysis.risk_level = "High"
            /\ out[p].hs_analysis.summary = "No HS codes found in any document."

\* the tier of a score: >= 90 Low, >= 70 Medium, else High
TierOf(score) ==
    IF score >= 90 THEN "Low" ELSE IF score >= 70 THEN "Medium" ELSE "High"

\* C18: the tier reported for a run, in the summary and in the run's stored
\* record, is the tier of the cognitive score the response returns.
C18_TierOfReturnedScore ==
    \A p \in Procs :
        pc[p] = "done" =>
            /\ out[p].risk_tier = TierOf(out[p].cognitive_score)
            /\ OwnRecord(p).risk_tier = TierOf(out[p].cognitive_score)

\* C19: after a run, trend_data and total_records describe the records the
\* store retains, in order, so the trend never has more than 10 entries.
C19_TrendIsRetained ==
    \A p \in Procs :
        pc[p] = "done" =>
            LET retained == load_memory(store)
                rh == out[p].risk_history
            IN  /\ rh.trend_data = trend_data(retained)
                /\ rh.total_records = Len(retained)
                /\ Len(rh.trend_data) <= MEMORY_CAP

\* the pairwise rows of one field
PairRowsOf(p, f) == SelectSeq(out[p].pairwise_comparison, LAMBDA r : r.field = f)

\* C20 as stated: when a field's master row is Match, no pairwise row of the
\* field is Mismatch.
C20_TablesAgree ==
    \A p \in Procs :
        (pc[p] = "done" /\ Len(docs[p]) >= 2) =>
            \A k \in 1..Len(fields) :
                out[p].comparison_table[k].status = "Match" =>
                    \A r \in Range(PairRowsOf(p, fields[k])) : r.status # "Mismatch"

\* C20 amended: when a field's master row is Match, a pairwise row of the
\* field is Mismatch only if exactly one of its two values is empty; with no
\* empty value in the field no pairwise row is Mismatch.
C20_AgreeOnPresentValues ==
    \A p \in Procs :
        (pc[p] = "done" /\ Len(docs[p]) >= 2) =>
            \A k \in 1..Len(fields) :
                out[p].comparison_table[k].status = "Match" =>
                    \A r \in Range(PairRowsOf(p, fields[k])) :
                        r.status = "Mismatch" => (NonEmpty(r.value1) # NonEmpty(r.value2))

\* a Match field with a value in one document and none in another, whose
\* pairwise row is Mismatch, next to a Match field whose values differ only in
\* white space
C20_Witness ==
    \E p \in Procs :
        /\ pc[p] = "done"
        /\ \E k \in 1..Len(fields) :
              /\ out[p].comparison_table[k].status = "Match"
              /\ \E r \in Range(PairRowsOf(p, fields[k])) :
                    r.status = "Mismatch" /\ r.value2 = None
        /\ \E k \in 1..Len(fields) :
              /\ out[p].comparison_table[k].status = "Match"
              /\ \E r \in Range(PairRowsOf(p, fields[k])) :
                    r.status = "Match" /\ r.value1 # r.value2

\* the place of the run of request p among all runs
RunIndex(p) == CHOOSE k \in 1..Len(runs) : runs[k].timestamp = OwnRecord(p).timestamp

\* the records of the (at most) 10 runs immediately before the run of request p
Preceding(p) == SubSeq(runs, Max(1, RunIndex(p) - MEMORY_CAP), RunIndex(p) - 1)

\* C21: in sequential runs, an exporter or destination port that occurs in
\* none of the 10 runs immediately before the current run is not reported as
\* recurring and adds no penalty, even if an earlier run had it: the recurring
\* lists and the penalty are those of the strings found in these 10 runs.
C21_ForgottenWithEviction ==
    \A p \in Procs :
        pc[p] = "done" =>
            LET prev == Preceding(p)
                seen(key) == UNION {Range(prev[i][key]) : i \in 1..Len(prev)}
                own == OwnRecord(p)
                exps == {e \in Range(own.exporters) : NonEmpty(e) /\ e \in seen("exporters")}
                prts == {e \in Range(own.ports) : NonEmpty(e) /\ e \in seen("ports")}
            IN  /\ out[p].risk_history.recurring_exporters = exps
                /\ out[p].risk_history.recurring_ports = prts
                /\ out[p].cognitive_score =
                       Max(0, Unadjusted(p) - 5 * (Cardinality(exps) + Cardinality(prts)))

\* a run whose exporter and port were last seen 11 runs ago: nothing recurs
\* and the score is not reduced
C21_Witness ==
    \E p \in Procs :
        /\ pc[p] = "done"
        /\ \E i \in 1..(RunIndex(p) - MEMORY_CAP - 1) :
              /\ \E e \in Range(OwnRecord(p).exporters) :
                    NonEmpty(e) /\ e \in Range(runs[i].exporters)
              /\ \E e \in Range(OwnRecord(p).ports) : e \in Range(runs[i].ports)
        /\ out[p].risk_history.recurring_exporters = {}
        /\ out[p].risk_history.recurring_ports = {}
        /\ out[p].cognitive_score = Unadjusted(p)

\* C22: a comparison of fewer than 6 documents has no Value Spike alert,
\* whatever the amounts, so none of its pattern alerts is High and the
\* pattern term of the base score is 0.
C22_NoSpikeBelowSix ==
    \A p \in Procs :
        (pc[p] = "done" /\ Len(docs[p]) < 6) =>
            LET o == out[p]
                IsMismatch(r) == r.status = "Mismatch"
                IsHigh(a) == a.severity = "High"
            IN  /\ \A k \in 1..Len(o.pattern_alerts) :
                      /\ o.pattern_alerts[k].type # "Value Spike"
                      /\ o.pattern_alerts[k].severity # "High"
                /\ o.base = 100 - 4 * Len(SelectSeq(o.comparison_table, IsMismatch))
                                - 8 * Len(SelectSeq(o.fraud_report, IsHigh))

\* five documents, four with the same amount and one far from it (the
\* largest z-score five amounts can have): no alert
C22_Witness ==
    \E p \in Procs :
        /\ pc[p] = "done"
        /\ Len(docs[p]) = 5
        /\ \A i \in 1..4 : docs[p][i].amount = S("100")
        /\ docs[p][5].amount = None
        /\ out[p].pattern_alerts = <<>>
        /\ out[p].base = 100

====
